---- MODULE Spec2Model ----
(***************************************************************************)
(* Shipment lifecycle: the workflow and activities of run_worker.py and    *)
(* the request layer of run_api.py, over the shared file shipments.json.   *)
(*                                                                         *)
(* The workflow runs on a workflow-orchestration service.  What the model  *)
(* takes from that service: a timer (asyncio.sleep) and an activity are     *)
(* steps of their own; a signal handler runs before the workflow coroutine  *)
(* resumes, so delivering a signal is one step; an activity that raises is  *)
(* retried after a back-off, without a limit, because the workflow passes   *)
(* no retry policy and no schedule-to-close timeout; a signal sent to a     *)
(* workflow that does not exist or has completed is refused.                *)
(***************************************************************************)
EXTENDS Naturals, Sequences, FiniteSets, TLC

VARIABLES
    fileState,          \* shipments.json: "ok" (parses), "missing", "invalid"
    file,               \* the parsed content of shipments.json: id -> record
    pc,                 \* per instance: position of ShipmentLifecycleWorkflow.run
    data,               \* per instance: the shipment_data argument of run
    resolution_choice,  \* per instance: self.resolution_choice
    branch,             \* per instance: the arm of the if-chain being executed
    timer,              \* per instance: duration of the pending asyncio.sleep, 0 if none
    attempt,            \* per instance: attempt number of the current activity (saturates)
    retrying,           \* per instance: the current activity failed and awaits its retry
    loaded,             \* per instance: the activity has read the file, not yet written it
    local,              \* per instance: the `shipments` dict the activity holds
    result,             \* per instance: the value returned by run
    resignalled,        \* per instance: a signal arrived when a choice was already set
    resp                \* the response of the request handled by this step, if any
                        \* (in StoreSpec: the outcome of the activity executed)

vars == <<fileState, file, pc, data, resolution_choice, branch, timer, attempt,
          retrying, loaded, local, result, resignalled, resp>>

wfVars == <<pc, data, resolution_choice, branch, timer, attempt, retrying,
            loaded, local, result, resignalled>>

----------------------------------------------------------------------------
(* Bounds and input sets *)

AttemptCap == 2

None == "None"

Ids == {"SHP-1", "SHP-2"}

Destinations == {"Rotterdam"}

DefaultOrigin == "Warehouse Alpha"

valid_choices == {"expedite", "wait", "bribe_official", "reroute"}

SignalChoices == valid_choices \cup {"sabotage"}

\* The choices tried where two instances run side by side: two recognized ones
\* and an unrecognized one.
SomeChoices == {"expedite", "wait", "sabotage"}

IssueText == "Documentation discrepancy found - requires manual review"

EmptyStore == [k \in {} |-> None]

NoData == [shipment_id |-> None]

NoResult == [status |-> None]

NoResp == [op |-> None, code |-> 0]

----------------------------------------------------------------------------
(* Activities: the functions applied to the parsed file content *)

Truthy(s) == s # None /\ s # ""

\* Mutant: new issue details are appended to the recorded ones.
update_shipment_status_AppendsIssue(shipments, shipment_id, status, current_location, issue_details) ==
    IF shipment_id \in DOMAIN shipments
    THEN [shipments EXCEPT ![shipment_id] =
            [@ EXCEPT !.status = status,
                      !.current_location =
                          IF Truthy(current_location) THEN current_location ELSE @,
                      !.issue_details =
                          IF issue_details = None THEN @
                          ELSE IF @ = None THEN issue_details
                          ELSE @ \o "; " \o issue_details]]
    ELSE shipments

\* Mutant: a record is made for a shipment id that is not in the store.
update_shipment_status_Upserts(shipments, shipment_id, status, current_location, issue_details) ==
    [k \in DOMAIN shipments \cup {shipment_id} |->
        IF k # shipment_id
        THEN shipments[k]
        ELSE IF k \in DOMAIN shipments
             THEN [shipments[k] EXCEPT
                      !.status = status,
                      !.current_location =
                          IF Truthy(current_location) THEN current_location ELSE @,
                      !.issue_details =
                          IF issue_details # None THEN issue_details ELSE @]
             ELSE [shipment_id |-> k, status |-> status,
                   current_location |-> current_location,
                   issue_details |-> issue_details]]

\* Mutant: issue_details is written whatever it is, None included.
update_shipment_status_ClearsIssue(shipments, shipment_id, status, current_location, issue_details) ==
    IF shipment_id \in DOMAIN shipments
    THEN [shipments EXCEPT ![shipment_id] =
            [@ EXCEPT !.status = status,
                      !.current_location =
                          IF Truthy(current_location) THEN current_location ELSE @,
                      !.issue_details = issue_details]]
    ELSE shipments

update_shipment_status(shipments, shipment_id, status, current_location, issue_details) ==
    IF shipment_id \in DOMAIN shipments
    THEN [shipments EXCEPT ![shipment_id] =
            [@ EXCEPT !.status = status,
                      !.current_location =
                          IF Truthy(current_location) THEN current_location ELSE @,
                      !.issue_details =
                          IF issue_details # None THEN issue_details ELSE @]]
    ELSE shipments

\* What update_shipment_status returns, whether or not it found the id.
update_shipment_status_returns(shipment_id, status) ==
    [shipment_id |-> shipment_id, status |-> status]

create_shipment_record(shipments, shipment_data) ==
    [k \in DOMAIN shipments \cup {shipment_data.shipment_id} |->
        IF k = shipment_data.shipment_id THEN shipment_data ELSE shipments[k]]

----------------------------------------------------------------------------
(* The workflow: positions, the resolution if-chain, the activity of each step *)

ActivityPcs == {"create", "in_transit", "at_customs", "issue", "cleared", "deliver"}

SleepPcs == {"travel1", "travel2", "inspect", "delay", "out_for_delivery"}

RunningPcs == ActivityPcs \cup SleepPcs \cup {"wait"}

ResolutionBranch(choice) ==
    IF choice = "expedite" THEN "expedite"
    ELSE IF choice = "bribe_official" THEN "bribe_official"
    ELSE IF choice = "reroute" THEN "reroute"
    ELSE IF choice = "wait" THEN "wait"
    ELSE "else"

BranchDelay(b) ==
    CASE b = "expedite" -> 2
      [] b = "bribe_official" -> 3
      [] b = "reroute" -> 4
      [] b = "wait" -> 6
      [] OTHER -> 6

\* Mutant: the labels of the expedite and bribe_official arms exchanged.
BranchLocation_LabelsExchanged(b, destination) ==
    CASE b = "expedite" -> "Customs cleared (Expedited Processing) - " \o destination
      [] b = "bribe_official" -> "Customs cleared (Express Service) - " \o destination
      [] b = "reroute" -> "Rerouted and cleared (Alternative Port) - " \o destination
      [] b = "wait" -> "Customs cleared (Standard Processing) - " \o destination
      [] OTHER -> "Customs cleared - " \o destination

BranchLocation(b, destination) ==
    CASE b = "expedite" -> "Customs cleared (Express Service) - " \o destination
      [] b = "bribe_official" -> "Customs cleared (Expedited Processing) - " \o destination
      [] b = "reroute" -> "Rerouted and cleared (Alternative Port) - " \o destination
      [] b = "wait" -> "Customs cleared (Standard Processing) - " \o destination
      [] OTHER -> "Customs cleared - " \o destination

\* The store content after the activity of position p of instance i, run on `shipments`.
ActivityEffect(shipments, i, p) ==
    LET d == data[i].destination IN
    CASE p = "create" -> create_shipment_record(shipments, data[i])
      [] p = "in_transit" ->
            update_shipment_status(shipments, i, "In Transit", "En route to " \o d, None)
      [] p = "at_customs" ->
            update_shipment_status(shipments, i, "At Customs",
                                   "Customs checkpoint - " \o d, None)
      [] p = "issue" ->
            update_shipment_status(shipments, i, "Issue Detected",
                                   "Customs checkpoint - " \o d, IssueText)
      [] p = "cleared" ->
            update_shipment_status(shipments, i, "Cleared Customs",
                                   BranchLocation(branch[i], d), None)
      [] p = "deliver" ->
            update_shipment_status(shipments, i, "Delivered", "Delivered to " \o d, None)

\* Mutant: run goes from 'In Transit' to the inspection without the customs write.
AfterActivity_SkipsCustoms(p) ==
    CASE p = "create" -> "travel1"
      [] p = "in_transit" -> "inspect"
      [] p = "at_customs" -> "inspect"
      [] p = "issue" -> "wait"
      [] p = "cleared" -> "out_for_delivery"
      [] p = "deliver" -> "done"

\* The position after the activity of position p has completed.
AfterActivity(p) ==
    CASE p = "create" -> "travel1"
      [] p = "in_transit" -> "travel2"
      [] p = "at_customs" -> "inspect"
      [] p = "issue" -> "wait"
      [] p = "cleared" -> "out_for_delivery"
      [] p = "deliver" -> "done"

\* Mutant: the resolution sleep lasts the same for every arm.
SleepOf_SameDelay(p, b) ==
    CASE p = "travel1" -> 3
      [] p = "travel2" -> 3
      [] p = "inspect" -> 2
      [] p = "delay" -> BranchDelay("expedite")
      [] p = "out_for_delivery" -> 3
      [] OTHER -> 0

\* The duration of the asyncio.sleep that position p starts, 0 if it starts none.
SleepOf(p, b) ==
    CASE p = "travel1" -> 3
      [] p = "travel2" -> 3
      [] p = "inspect" -> 2
      [] p = "delay" -> BranchDelay(b)
      [] p = "out_for_delivery" -> 3
      [] OTHER -> 0

\* The position after the sleep of position p has elapsed.
AfterSleep(p) ==
    CASE p = "travel1" -> "in_transit"
      [] p = "travel2" -> "at_customs"
      [] p = "inspect" -> "issue"
      [] p = "delay" -> "cleared"
      [] p = "out_for_delivery" -> "deliver"

RunResult(i) ==
    [shipment_id |-> i, status |-> "Delivered", resolution |-> resolution_choice[i]]

----------------------------------------------------------------------------
(* Initial state *)

Init ==
    /\ fileState \in {"ok", "missing", "invalid"}
    /\ file = EmptyStore
    /\ pc = [i \in Ids |-> "none"]
    /\ data = [i \in Ids |-> NoData]
    /\ resolution_choice = [i \in Ids |-> None]
    /\ branch = [i \in Ids |-> None]
    /\ timer = [i \in Ids |-> 0]
    /\ attempt = [i \in Ids |-> 0]
    /\ retrying = [i \in Ids |-> FALSE]
    /\ loaded = [i \in Ids |-> FALSE]
    /\ local = [i \in Ids |-> EmptyStore]
    /\ result = [i \in Ids |-> NoResult]
    /\ resignalled = [i \in Ids |-> FALSE]
    /\ resp = NoResp

----------------------------------------------------------------------------
(* Workflow steps *)

Min(a, b) == IF a < b THEN a ELSE b

\* Instance i moves to position p (with the if-chain arm b).
Enter(i, p, b) ==
    /\ pc' = [pc EXCEPT ![i] = p]
    /\ branch' = [branch EXCEPT ![i] = b]
    /\ timer' = [timer EXCEPT ![i] = SleepOf(p, b)]
    /\ attempt' = [attempt EXCEPT ![i] = IF p \in ActivityPcs THEN 1 ELSE 0]
    /\ result' = [result EXCEPT ![i] = IF p = "done" THEN RunResult(i) ELSE @]

\* client.start_workflow(ShipmentLifecycleWorkflow.run, shipment_data, id=shipment_id):
\* __init__ and the start of run, up to the first activity.
StartWorkflow(i, shipment_data) ==
    /\ pc[i] = "none"
    /\ data' = [data EXCEPT ![i] = shipment_data]
    /\ resolution_choice' = [resolution_choice EXCEPT ![i] = None]
    /\ pc' = [pc EXCEPT ![i] = "create"]
    /\ attempt' = [attempt EXCEPT ![i] = 1]
    /\ UNCHANGED <<branch, timer, retrying, loaded, local, result, resignalled>>

\* Mutant: the choice is cleared when the issue has been recorded, before the wait.
ExecuteActivity_ClearsChoice(i) ==
    /\ pc[i] \in ActivityPcs
    /\ ~retrying[i] /\ ~loaded[i]
    /\ fileState = "ok"
    /\ file' = ActivityEffect(file, i, pc[i])
    /\ Enter(i, AfterActivity(pc[i]), branch[i])
    /\ resolution_choice' =
          [resolution_choice EXCEPT ![i] = IF pc[i] = "issue" THEN None ELSE @]
    /\ resp' = NoResp
    /\ UNCHANGED <<fileState, data, retrying, loaded, local, resignalled>>

\* An activity whose read and write no other activity interleaves with: the
\* activities of one worker run on one event loop and do not await between the
\* read and the write.
ExecuteActivity(i) ==
    /\ pc[i] \in ActivityPcs
    /\ ~retrying[i] /\ ~loaded[i]
    /\ fileState = "ok"
    /\ file' = ActivityEffect(file, i, pc[i])
    /\ Enter(i, AfterActivity(pc[i]), branch[i])
    /\ resp' = NoResp
    /\ UNCHANGED <<fileState, data, resolution_choice, retrying, loaded, local,
                   resignalled>>

\* json.load(f) of an activity running in its own worker process.
ActivityRead(i) ==
    /\ pc[i] \in ActivityPcs
    /\ ~retrying[i] /\ ~loaded[i]
    /\ fileState = "ok"
    /\ local' = [local EXCEPT ![i] = file]
    /\ loaded' = [loaded EXCEPT ![i] = TRUE]
    /\ resp' = NoResp
    /\ UNCHANGED <<fileState, file, pc, data, resolution_choice, branch, timer,
                   attempt, retrying, result, resignalled>>

\* The update of the dict read earlier and json.dump of it, then the activity returns.
ActivityWrite(i) ==
    /\ pc[i] \in ActivityPcs
    /\ loaded[i]
    /\ file' = ActivityEffect(local[i], i, pc[i])
    /\ local' = [local EXCEPT ![i] = EmptyStore]
    /\ loaded' = [loaded EXCEPT ![i] = FALSE]
    /\ Enter(i, AfterActivity(pc[i]), branch[i])
    /\ resp' = NoResp
    /\ UNCHANGED <<fileState, data, resolution_choice, retrying, resignalled>>

\* open("shipments.json", "r") or json.load raises: the activity attempt fails.
ActivityFails(i) ==
    /\ pc[i] \in ActivityPcs
    /\ ~retrying[i] /\ ~loaded[i]
    /\ fileState # "ok"
    /\ retrying' = [retrying EXCEPT ![i] = TRUE]
    /\ resp' = NoResp
    /\ UNCHANGED <<fileState, file, pc, data, resolution_choice, branch, timer,
                   attempt, loaded, local, result, resignalled>>

\* The service schedules the next attempt; no retry policy bounds the attempts.
ActivityRetry(i) ==
    /\ retrying[i]
    /\ retrying' = [retrying EXCEPT ![i] = FALSE]
    /\ attempt' = [attempt EXCEPT ![i] = Min(@ + 1, AttemptCap)]
    /\ resp' = NoResp
    /\ UNCHANGED <<fileState, file, pc, data, resolution_choice, branch, timer,
                   loaded, local, result, resignalled>>

\* An asyncio.sleep elapses.
TimerFired(i) ==
    /\ pc[i] \in SleepPcs
    /\ Enter(i, AfterSleep(pc[i]), branch[i])
    /\ resp' = NoResp
    /\ UNCHANGED <<fileState, file, data, resolution_choice, retrying, loaded,
                   local, resignalled>>

\* Mutant: the workflow does not wait for a choice.
PassWait_WithoutChoice(i) ==
    /\ pc[i] = "wait"
    /\ Enter(i, "delay", ResolutionBranch(resolution_choice[i]))
    /\ resp' = NoResp
    /\ UNCHANGED <<fileState, file, data, resolution_choice, retrying, loaded,
                   local, resignalled>>

\* workflow.wait_condition returns, the if-chain picks its arm and starts its sleep.
PassWait(i) ==
    /\ pc[i] = "wait"
    /\ resolution_choice[i] # None
    /\ Enter(i, "delay", ResolutionBranch(resolution_choice[i]))
    /\ resp' = NoResp
    /\ UNCHANGED <<fileState, file, data, resolution_choice, retrying, loaded,
                   local, resignalled>>

\* The body of the signal handler.
SetChoice(i, choice) ==
    /\ resolution_choice' = [resolution_choice EXCEPT ![i] = choice]
    /\ resignalled' = [resignalled EXCEPT ![i] = @ \/ resolution_choice[i] # None]

\* A signal sent by any client of the service reaches a running instance.
handle_resolution(i, choice) ==
    /\ pc[i] \in RunningPcs
    /\ SetChoice(i, choice)
    /\ resp' = NoResp
    /\ UNCHANGED <<fileState, file, pc, data, branch, timer, attempt, retrying,
                   loaded, local, result>>

----------------------------------------------------------------------------
(* The request layer *)

ShipmentData(id, destination) ==
    [shipment_id |-> id, origin |-> DefaultOrigin, destination |-> destination,
     current_location |-> DefaultOrigin, status |-> "Pending", issue_details |-> None]

FileError ==
    IF fileState = "missing" THEN "Shipments database file not found"
    ELSE "Invalid JSON in shipments database"

get_all_shipments ==
    /\ resp' = IF fileState = "ok"
               THEN [op |-> "get_all_shipments", code |-> 200, body |-> file]
               ELSE [op |-> "get_all_shipments", code |-> 500, detail |-> FileError]
    /\ UNCHANGED <<fileState, file>>
    /\ UNCHANGED wfVars

\* Mutant: an id that is not in the file is answered like an unreadable file.
get_shipment_NotFoundAs500(shipment_id) ==
    /\ resp' = IF fileState # "ok" \/ shipment_id \notin DOMAIN file
               THEN [op |-> "get_shipment", id |-> shipment_id, code |-> 500,
                     detail |-> FileError]
               ELSE [op |-> "get_shipment", id |-> shipment_id, code |-> 200,
                     body |-> file[shipment_id]]
    /\ UNCHANGED <<fileState, file>>
    /\ UNCHANGED wfVars

get_shipment(shipment_id) ==
    /\ resp' = IF fileState # "ok"
               THEN [op |-> "get_shipment", id |-> shipment_id, code |-> 500,
                     detail |-> FileError]
               ELSE IF shipment_id \notin DOMAIN file
               THEN [op |-> "get_shipment", id |-> shipment_id, code |-> 404]
               ELSE [op |-> "get_shipment", id |-> shipment_id, code |-> 200,
                     body |-> file[shipment_id]]
    /\ UNCHANGED <<fileState, file>>
    /\ UNCHANGED wfVars

\* Mutant: the request handler writes the new record into the file itself.
create_shipment_WritesRecord(shipment_id, destination, up) ==
    /\ pc[shipment_id] = "none"
    /\ IF up
       THEN /\ StartWorkflow(shipment_id, ShipmentData(shipment_id, destination))
            /\ resp' = [op |-> "create_shipment", code |-> 200,
                        body |-> ShipmentData(shipment_id, destination)]
            /\ file' = IF fileState = "ok"
                       THEN create_shipment_record(file,
                                ShipmentData(shipment_id, destination))
                       ELSE file
       ELSE /\ resp' = [op |-> "create_shipment", code |-> 500]
            /\ UNCHANGED wfVars
            /\ file' = file
    /\ UNCHANGED fileState

\* shipment_id is generated (timestamp and random suffix): an id no instance has.
\* `up`: whether the service can be reached.
create_shipment(shipment_id, destination, up) ==
    /\ pc[shipment_id] = "none"
    /\ IF up
       THEN /\ StartWorkflow(shipment_id, ShipmentData(shipment_id, destination))
            /\ resp' = [op |-> "create_shipment", code |-> 200,
                        body |-> ShipmentData(shipment_id, destination)]
       ELSE /\ resp' = [op |-> "create_shipment", code |-> 500]
            /\ UNCHANGED wfVars
    /\ UNCHANGED <<fileState, file>>

\* `up`: whether the service can be reached; it refuses a signal to an instance
\* that does not exist or has completed.
\* Mutant: the choice is not validated.
resolve_shipment_issue_Unvalidated(shipment_id, choice, up) ==
    /\ IF up /\ pc[shipment_id] \in RunningPcs
       THEN /\ SetChoice(shipment_id, choice)
            /\ resp' = [op |-> "resolve_shipment_issue", code |-> 200,
                        body |-> [shipment_id |-> shipment_id, choice |-> choice]]
            /\ UNCHANGED <<pc, data, branch, timer, attempt, retrying, loaded,
                           local, result>>
       ELSE /\ resp' = [op |-> "resolve_shipment_issue", code |-> 500]
            /\ UNCHANGED wfVars
    /\ UNCHANGED <<fileState, file>>

resolve_shipment_issue(shipment_id, choice, up) ==
    /\ IF choice \notin valid_choices
       THEN /\ resp' = [op |-> "resolve_shipment_issue", code |-> 400]
            /\ UNCHANGED wfVars
       ELSE IF up /\ pc[shipment_id] \in RunningPcs
       THEN /\ SetChoice(shipment_id, choice)
            /\ resp' = [op |-> "resolve_shipment_issue", code |-> 200,
                        body |-> [shipment_id |-> shipment_id, choice |-> choice]]
            /\ UNCHANGED <<pc, data, branch, timer, attempt, retrying, loaded,
                           local, result>>
       ELSE /\ resp' = [op |-> "resolve_shipment_issue", code |-> 500]
            /\ UNCHANGED wfVars
    /\ UNCHANGED <<fileState, file>>

----------------------------------------------------------------------------
(* Specifications *)

WorkflowStep(i) ==
    \/ ExecuteActivity(i)
    \/ ActivityFails(i)
    \/ ActivityRetry(i)
    \/ TimerFired(i)
    \/ PassWait(i)

Requests ==
    \/ get_all_shipments
    \/ \E id \in Ids : get_shipment(id)
    \/ \E id \in Ids, d \in Destinations, up \in BOOLEAN : create_shipment(id, d, up)
    \/ \E id \in Ids, c \in SomeChoices, up \in BOOLEAN :
            resolve_shipment_issue(id, c, up)

Next ==
    \/ \E i \in Ids : WorkflowStep(i)
    \/ \E i \in Ids, c \in SomeChoices : handle_resolution(i, c)
    \/ Requests

\* One worker process (run_worker.py started once) and the request layer.
Spec == Init /\ [][Next]_vars

\* The instances the progress properties follow: instances share nothing but the
\* file, in which each writes its own key, so one is followed alone.
Solo == {"SHP-1"}

\* An instance alone: started by create_shipment, driven by the worker, signalled.
Core ==
    \/ \E i \in Solo : WorkflowStep(i)
    \/ \E i \in Solo, c \in SignalChoices : handle_resolution(i, c)
    \/ \E id \in Solo, d \in Destinations : create_shipment(id, d, TRUE)

\* The worker and the service keep running: a step of an instance that stays
\* possible is taken.  Requests and signals are up to the users.
FairSpec == Init /\ [][Core]_vars /\ \A i \in Solo : WF_vars(WorkflowStep(i))


\* Activities run in several worker processes (run_worker.py started more than
\* once): the read and the write of an activity are steps of their own, and the
\* activities of different instances interleave.
WorkerStep(i) ==
    \/ ActivityRead(i)
    \/ ActivityWrite(i)
    \/ ActivityFails(i)
    \/ ActivityRetry(i)
    \/ TimerFired(i)
    \/ PassWait(i)

WorkerChoices == {"expedite"}

NextWorkers ==
    \/ \E i \in Ids : WorkerStep(i)
    \/ \E i \in Ids, c \in WorkerChoices : handle_resolution(i, c)
    \/ \E id \in Ids, d \in Destinations : create_shipment(id, d, TRUE)

SpecWorkers == Init /\ [][NextWorkers]_vars

----------------------------------------------------------------------------
(* The activities on any store content and with any arguments *)

Statuses == {"Pending", "Issue Detected", "Delivered"}

Locations == {None, "", "Port of Rotterdam"}

IssueValues == {None, "", IssueText}

Records ==
    [shipment_id : Ids, origin : {DefaultOrigin}, destination : Destinations,
     current_location : {DefaultOrigin, "Port of Rotterdam"}, status : Statuses,
     issue_details : {None, IssueText}]

\* The contents of shipments.json: each record under its own shipment_id.
Stores ==
    UNION {{st \in [S -> Records] : \A k \in S : st[k].shipment_id = k} :
           S \in SUBSET Ids}

StoreInit ==
    /\ fileState \in {"ok", "missing", "invalid"}
    /\ file \in Stores
    /\ pc = [i \in Ids |-> "none"]
    /\ data = [i \in Ids |-> NoData]
    /\ resolution_choice = [i \in Ids |-> None]
    /\ branch = [i \in Ids |-> None]
    /\ timer = [i \in Ids |-> 0]
    /\ attempt = [i \in Ids |-> 0]
    /\ retrying = [i \in Ids |-> FALSE]
    /\ loaded = [i \in Ids |-> FALSE]
    /\ local = [i \in Ids |-> EmptyStore]
    /\ result = [i \in Ids |-> NoResult]
    /\ resignalled = [i \in Ids |-> FALSE]
    /\ resp = NoResp

\* One execution of the activity; it raises, and writes nothing, when the file
\* cannot be read.
call_update_shipment_status(shipment_id, status, current_location, issue_details) ==
    /\ file' = IF fileState = "ok"
               THEN update_shipment_status(file, shipment_id, status,
                                           current_location, issue_details)
               ELSE file
    /\ resp' = IF fileState = "ok"
               THEN [op |-> "update_shipment_status", raised |-> FALSE,
                     returned |-> update_shipment_status_returns(shipment_id, status)]
               ELSE [op |-> "update_shipment_status", raised |-> TRUE]
    /\ UNCHANGED fileState
    /\ UNCHANGED wfVars

\* Its return value, the record passed in, is not kept.
call_create_shipment_record(shipment_data) ==
    /\ file' = IF fileState = "ok"
               THEN create_shipment_record(file, shipment_data)
               ELSE file
    /\ resp' = [op |-> "create_shipment_record", raised |-> fileState # "ok"]
    /\ UNCHANGED fileState
    /\ UNCHANGED wfVars

StoreNext ==
    \/ \E id \in Ids, st \in Statuses, loc \in Locations, iss \in IssueValues :
            call_update_shipment_status(id, st, loc, iss)
    \/ \E rec \in Records : call_create_shipment_record(rec)

StoreSpec == StoreInit /\ [][StoreNext]_vars

----------------------------------------------------------------------------
(* Claims *)

\* The resolution table of the specification: choice -> location label.
TableLabel(c) ==
    CASE c = "expedite" -> "Express Service"
      [] c = "bribe_official" -> "Expedited Processing"
      [] c = "reroute" -> "Alternative Port"
      [] c = "wait" -> "Standard Processing"

\* The location text carries the label, in parentheses, before the destination.
CarriesLabel(location, label, destination) ==
    location \in {"Customs cleared (" \o label \o ") - " \o destination,
                  "Rerouted and cleared (" \o label \o ") - " \o destination}

Recorded(i, status) == i \in DOMAIN file /\ file[i].status = status

\* The one choice instance i was signalled, if it was signalled exactly once.
OnlyChoice(i, c) == resolution_choice[i] = c /\ ~resignalled[i]

\* C1: for each recognized choice, an instance waiting at 'Issue Detected' that is
\* signalled that choice (and nothing else) reaches 'Delivered'; run returns that
\* choice as 'resolution'; and the location written with 'Cleared Customs' carries
\* the label the resolution table gives for the choice.
C1_RecognizedChoiceDelivered ==
    /\ \A i \in Solo, c \in valid_choices :
          (pc[i] = "wait" /\ Recorded(i, "Issue Detected") /\ OnlyChoice(i, c))
              ~> (pc[i] = "done" /\ Recorded(i, "Delivered"))
    /\ [](\A i \in Solo, c \in valid_choices :
            /\ (pc[i] = "done" /\ OnlyChoice(i, c)) =>
                  /\ result[i].status = "Delivered"
                  /\ result[i].resolution = c
                  /\ Recorded(i, "Delivered")
            /\ (Recorded(i, "Cleared Customs") /\ OnlyChoice(i, c)) =>
                  CarriesLabel(file[i].current_location, TableLabel(c),
                               data[i].destination))

C1_Witness ==
    \E i \in Solo :
        /\ pc[i] = "done" /\ OnlyChoice(i, "reroute")
        /\ result[i].resolution = "reroute"
        /\ Recorded(i, "Delivered")

\* C2: an instance signalled an unrecognized choice (and nothing else) reaches
\* 'Delivered', and its 'Cleared Customs' step uses the delay of the 'wait' arm
\* and a location carrying the label of the 'wait' choice, 'Standard Processing'.
C2_UnknownChoiceTreatedAsWait ==
    /\ \A i \in Solo, c \in SignalChoices \ valid_choices :
          (pc[i] = "wait" /\ Recorded(i, "Issue Detected") /\ OnlyChoice(i, c))
              ~> (pc[i] = "done" /\ Recorded(i, "Delivered"))
    /\ [](\A i \in Solo, c \in SignalChoices \ valid_choices :
            /\ (pc[i] = "delay" /\ OnlyChoice(i, c)) =>
                  timer[i] = BranchDelay(ResolutionBranch("wait"))
            /\ (Recorded(i, "Cleared Customs") /\ OnlyChoice(i, c)) =>
                  CarriesLabel(file[i].current_location, TableLabel("wait"),
                               data[i].destination))

UnrecognizedRequests ==
    Ids \X (SomeChoices \ valid_choices) \X BOOLEAN

\* C3 (as stated): a resolve request with a choice outside the four recognized
\* ones, for a running instance and with the service reachable, does not end in
\* an error and its choice is forwarded to the instance.
C3_UnrecognizedChoiceAccepted ==
    [][\A r \in UnrecognizedRequests :
          (resolve_shipment_issue(r[1], r[2], r[3]) /\ r[3] /\ pc[r[1]] \in RunningPcs)
              => (resp'.code = 200 /\ resolution_choice'[r[1]] = r[2])]_vars

\* C3 (amended): a resolve request with a choice outside the four recognized ones
\* always ends in the error 400, and nothing is forwarded: no instance changes.
C3_UnrecognizedChoiceRejected ==
    [][\A r \in UnrecognizedRequests :
          resolve_shipment_issue(r[1], r[2], r[3])
              => (resp'.op = "resolve_shipment_issue" /\ resp'.code = 400
                  /\ UNCHANGED wfVars)]_vars

\* A request was rejected as invalid while an instance was waiting for its choice.
C3_Witness ==
    /\ resp.op = "resolve_shipment_issue" /\ resp.code = 400
    /\ \E i \in Ids : pc[i] = "wait" /\ resolution_choice[i] = None

\* C4: once an instance's resolution_choice is set, no later step changes it.
C4_ChoiceWrittenOnce ==
    [][\A i \in Ids :
          resolution_choice[i] # None => resolution_choice'[i] = resolution_choice[i]]_vars

BeforeWaitPcs ==
    {"create", "travel1", "in_transit", "travel2", "at_customs", "inspect", "issue"}

PastWaitPcs == {"delay", "cleared", "out_for_delivery", "deliver", "done"}

\* C5: a signal delivered at any step before the wait point is kept: the choice
\* stays set; an instance that reaches the wait point passes it without another
\* signal; and, signalled once, it takes the arm of that choice.
C5_EarlySignalKept ==
    /\ \A i \in Solo :
          (fileState = "ok" /\ pc[i] \in BeforeWaitPcs /\ resolution_choice[i] # None)
              ~> (pc[i] \in PastWaitPcs)
    /\ [][\A i \in Solo :
            resolution_choice[i] # None => resolution_choice'[i] # None]_vars
    /\ [](\A i \in Solo, c \in SignalChoices :
            (pc[i] \in PastWaitPcs /\ OnlyChoice(i, c)) =>
                branch[i] = ResolutionBranch(c))

\* The choice arrived while the instance was still travelling.
C5_Witness ==
    \E i \in Solo :
        /\ pc[i] = "travel2" /\ OnlyChoice(i, "reroute")
        /\ Recorded(i, "In Transit")

\* C7: an instance whose activity keeps failing reaches the terminal status 'Failed'.
C7_FailingActivityFailsInstance ==
    \A i \in Solo :
        (pc[i] \in ActivityPcs /\ fileState # "ok")
            ~> (fileState = "ok" \/ pc[i] = "failed" \/ Recorded(i, "Failed"))

\* C6: an activity executed twice in a row with the same arguments leaves the
\* store as executing it once does: on the store it has just written, the same
\* call changes nothing; an execution that raises leaves the store as it was.
C6_WriteIdempotent ==
    [][/\ \A id \in Ids, st \in Statuses, loc \in Locations, iss \in IssueValues :
            (fileState = "ok" /\ call_update_shipment_status(id, st, loc, iss)) =>
                update_shipment_status(file', id, st, loc, iss) = file'
       /\ \A rec \in Records :
            (fileState = "ok" /\ call_create_shipment_record(rec)) =>
                create_shipment_record(file', rec) = file'
       /\ fileState # "ok" => file' = file]_vars

\* An update has written a status and an empty issue text into a record that
\* stands next to another one.
C6_Witness ==
    /\ fileState = "ok"
    /\ DOMAIN file = Ids
    /\ \E k \in Ids :
          /\ file[k].status = "Delivered"
          /\ file[k].current_location = "Port of Rotterdam"
          /\ file[k].issue_details = ""

\* C8: no request changes the file, and every step that changes it is an activity.
C8_OnlyActivitiesWrite ==
    [][/\ Requests => (file' = file /\ fileState' = fileState)
       /\ (file' # file \/ fileState' # fileState) => \E i \in Ids : ExecuteActivity(i)
      ]_vars

\* A request was served while the store held an instance's record.
C8_Witness ==
    /\ resp.op = "resolve_shipment_issue" /\ resp.code = 200
    /\ Recorded(resp.body.shipment_id, "Issue Detected")

\* C9: with a readable store, get_shipment answers 404 for an id that is not in
\* it and 200 with exactly the stored record for an id that is; it leaves the
\* store as it is.
C9_GetShipment ==
    /\ [](resp.op = "get_shipment" /\ fileState = "ok" =>
            IF resp.id \in DOMAIN file
            THEN resp.code = 200 /\ resp.body = file[resp.id]
            ELSE resp.code = 404)
    /\ [][\A id \in Ids : get_shipment(id) => (file' = file /\ fileState' = fileState)]_vars

\* An id that is not in the store was queried while another id is in it.
C9_Witness ==
    /\ resp.op = "get_shipment" /\ resp.code = 404
    /\ resp.id \notin DOMAIN file
    /\ \E k \in Ids : Recorded(k, "In Transit")

\* The status written by the last activity that has completed at position p.
CompletedStatus(p) ==
    CASE p \in {"travel1", "in_transit"} -> "Pending"
      [] p \in {"travel2", "at_customs"} -> "In Transit"
      [] p \in {"inspect", "issue"} -> "At Customs"
      [] p \in {"wait", "delay", "cleared"} -> "Issue Detected"
      [] p \in {"out_for_delivery", "deliver"} -> "Cleared Customs"
      [] p = "done" -> "Delivered"

\* C10: with activities in several workers, the store holds the effect of every
\* completed activity: each instance's record, with the status its last completed
\* activity wrote.
C10_NoLostUpdate ==
    \A i \in Ids :
        pc[i] \notin {"none", "create"} => Recorded(i, CompletedStatus(pc[i]))

\* C11: an instance pauses at 'Issue Detected' until its decision arrives:
\* 'Cleared Customs' or 'Delivered' is recorded for an instance only if that
\* instance has received a resolution signal, and an instance waiting without a
\* choice stays at the wait point in every step that brings it no choice.
C11_PausesUntilSignalled ==
    /\ [](\A i \in Ids :
            (Recorded(i, "Cleared Customs") \/ Recorded(i, "Delivered")
                \/ pc[i] \in PastWaitPcs)
                => resolution_choice[i] # None)
    /\ [][\A i \in Ids :
            (pc[i] = "wait" /\ resolution_choice[i] = None
                /\ resolution_choice'[i] = None)
                => (pc'[i] = "wait" /\ Recorded(i, "Issue Detected")
                    /\ file'[i] = file[i])]_vars

\* An instance waits without a choice while the other one, signalled, has been
\* delivered.
C11_Witness ==
    \E i, j \in Ids :
        /\ pc[i] = "wait" /\ resolution_choice[i] = None
        /\ Recorded(i, "Issue Detected")
        /\ pc[j] = "done" /\ Recorded(j, "Delivered")

\* The statuses of a shipment in the order of the life cycle.
StatusOrder ==
    <<"Pending", "In Transit", "At Customs", "Issue Detected", "Cleared Customs",
      "Delivered">>

\* C12: whatever signals arrive and whenever, the statuses written to the record
\* of an instance are Pending, In Transit, At Customs, Issue Detected, Cleared
\* Customs, Delivered in this order, each written by one step: nothing but an
\* activity of the instance changes the record, every activity that completes
\* moves the status to the next one of the order, a pending timer finds the write
\* before it in the store, and a completed instance writes nothing more.
C12_StatusSequence ==
    /\ [](\A i \in Solo :
            pc[i] \notin {"none", "create"} => Recorded(i, CompletedStatus(pc[i])))
    /\ [][\A i \in Solo :
            /\ i \notin DOMAIN file
                => \/ i \notin DOMAIN file'
                   \/ pc[i] = "create" /\ file'[i].status = StatusOrder[1]
            /\ i \in DOMAIN file
                => /\ i \in DOMAIN file'
                   /\ \/ file'[i] = file[i]
                      \/ /\ pc[i] \in ActivityPcs
                         /\ \E n \in DOMAIN StatusOrder \ {Len(StatusOrder)} :
                              /\ file[i].status = StatusOrder[n]
                              /\ file'[i].status = StatusOrder[n + 1]
            /\ (pc[i] \in ActivityPcs /\ pc'[i] # pc[i])
                => /\ i \in DOMAIN file'
                   /\ file'[i].status = CompletedStatus(pc'[i])
                   /\ i \in DOMAIN file => file'[i].status # file[i].status
            /\ (pc'[i] \in SleepPcs /\ pc'[i] # pc[i])
                => (i \in DOMAIN file' /\ file'[i].status = CompletedStatus(pc'[i]))
            /\ pc[i] = "done" => (pc'[i] = "done" /\ file' = file)]_vars

\* An instance signalled more than once, also after its delivery step had
\* started, has been delivered.
C12_Witness ==
    \E i \in Solo :
        /\ pc[i] = "done" /\ Recorded(i, "Delivered")
        /\ resignalled[i]
        /\ ResolutionBranch(resolution_choice[i]) # branch[i]

\* C13: the resolution delays are strictly ordered, expedite < bribe_official <
\* reroute < wait, and 'Cleared Customs' is written only after the delay of the
\* choice taken up has elapsed: the sleep started at the wait point lasts the
\* delay of the arm of the choice, the clearing activity starts only when that
\* sleep has elapsed, and only the clearing activity writes 'Cleared Customs'.
C13_DelayOrderedAndElapsed ==
    /\ [](/\ BranchDelay(ResolutionBranch("expedite"))
                < BranchDelay(ResolutionBranch("bribe_official"))
          /\ BranchDelay(ResolutionBranch("bribe_official"))
                < BranchDelay(ResolutionBranch("reroute"))
          /\ BranchDelay(ResolutionBranch("reroute"))
                < BranchDelay(ResolutionBranch("wait")))
    /\ [](\A i \in Solo :
            pc[i] = "delay"
                => /\ timer[i] = BranchDelay(branch[i])
                   /\ timer[i] > 0
                   /\ ~Recorded(i, "Cleared Customs"))
    /\ [][\A i \in Solo :
            /\ (pc'[i] = "delay" /\ pc[i] # "delay")
                => /\ pc[i] = "wait"
                   /\ branch'[i] = ResolutionBranch(resolution_choice[i])
                   /\ timer'[i] = BranchDelay(ResolutionBranch(resolution_choice[i]))
            /\ (pc'[i] = "cleared" /\ pc[i] # "cleared")
                => /\ pc[i] = "delay"
                   /\ timer[i] = BranchDelay(branch[i])
                   /\ branch'[i] = branch[i]
            /\ (~Recorded(i, "Cleared Customs")
                    /\ i \in DOMAIN file' /\ file'[i].status = "Cleared Customs")
                => pc[i] = "cleared"]_vars

\* The sleep of the rerouting arm has elapsed and 'Cleared Customs' is written.
C13_Witness ==
    \E i \in Solo :
        /\ pc[i] = "out_for_delivery"
        /\ branch[i] = "reroute"
        /\ Recorded(i, "Cleared Customs")

\* C14: the 'resolution' value in the result of a completed instance is a choice
\* of the arm that run took, the one whose delay and label went into the
\* 'Cleared Customs' write.
C14_ResultMatchesBranch ==
    \A i \in Solo :
        pc[i] = "done"
            => ResolutionBranch(result[i].resolution) = branch[i]

\* C15: the workflow never clears issue details: a record has no issue_details in
\* statuses Pending, In Transit and At Customs, and has the issue text recorded
\* with 'Issue Detected' in that status and in 'Cleared Customs' and 'Delivered',
\* whose writes pass issue_details = None.
C15_IssueDetailsKept ==
    \A i \in DOMAIN file :
        file[i].issue_details =
            IF file[i].status \in {"Pending", "In Transit", "At Customs"}
            THEN None
            ELSE IssueText

\* A delivered record still has the issue text, next to a record without one.
C15_Witness ==
    \E i, j \in DOMAIN file :
        /\ file[i].status = "Delivered" /\ file[i].issue_details = IssueText
        /\ file[j].status = "At Customs" /\ file[j].issue_details = None

\* C16: update_shipment_status for a shipment id that is not in the store leaves
\* the store as it is, no record changed and none created, and returns the id with
\* the requested status instead of raising; for an id that is in the store it
\* changes that id's record only.
C16_UpdateFrame ==
    [][\A id \in Ids, st \in Statuses, loc \in Locations, iss \in IssueValues :
            (fileState = "ok" /\ call_update_shipment_status(id, st, loc, iss))
                => /\ ~resp'.raised
                   /\ resp'.returned = [shipment_id |-> id, status |-> st]
                   /\ id \notin DOMAIN file => file' = file
                   /\ id \in DOMAIN file
                        => /\ DOMAIN file' = DOMAIN file
                           /\ file'[id].status = st
                           /\ \A k \in DOMAIN file \ {id} : file'[k] = file[k]]_vars

\* An update for an id that is not in the store, which holds another record, has
\* returned the requested status.
C16_Witness ==
    /\ fileState = "ok"
    /\ resp.op = "update_shipment_status"
    /\ ~resp.raised
    /\ resp.returned.status = "Delivered"
    /\ resp.returned.shipment_id \notin DOMAIN file
    /\ file # EmptyStore

====
